---- MODULE Spec2Model ----
(***************************************************************************)
(* Model of the website checker: the WebSite record (src/WebSite.py) and   *)
(* the queue-triggered handler with its notification step                  *)
(* (src/lambda_function.py).                                               *)
(*                                                                         *)
(* Python values are tagged tuples so that values of different Python      *)
(* types can be compared: None, <<"int", n>>, <<"str", s>>, a datetime     *)
(* <<"datetime", t>> and its ISO-8601 text <<"iso", t>>.  Time is counted  *)
(* in half seconds.  A dict is a function from key strings to values; an   *)
(* object is its __dict__, a dict with the '_'-prefixed attribute names.   *)
(* A URL is a sequence of one-character strings.                           *)
(***************************************************************************)
EXTENDS Integers, Sequences, FiniteSets, TLC

VARIABLES
    clock,              \* wall clock, in half seconds
    web_site,           \* the object check_website is called on (self)
    self_after,         \* that object's __dict__ after the call
    kwargs,             \* keyword arguments of the last check_website call
    probe,              \* what urlopen did in the last check_website call
    times,              \* the clock readings taken by the last check_website call
    ret,                \* outcome of the last check_website call
    site_obj,           \* mapping handed to the WebSite constructor
    made,               \* outcome of constructing WebSite(site_obj)
    reloaded,           \* outcome of WebSite(made.to_dict()), then once more
    environ,            \* os.environ of the process
    table,              \* the DynamoDB table: url -> item
    table0,             \* the table as it was when the current cycle started
    urls,               \* the batch of the current invocation
    pc,                 \* position of lambda_handler
    i,                  \* number of urls of the batch already looped over
    response_limit,     \* local variable of lambda_handler
    changed_sites,      \* local variable of lambda_handler
    log,                \* what happened to each url of the current cycle
    pub_arg,            \* the list publish_changes was called with
    pub,                \* outcome of the last publish_changes call
    sns_state,          \* availability of the SNS collaborator
    response,           \* what lambda_handler returned
    cycles              \* number of invocations started

vars == <<clock, web_site, self_after, kwargs, probe, times, ret, site_obj, made,
          reloaded, environ, table, table0, urls, pc, i, response_limit,
          changed_sites, log, pub_arg, pub, sns_state, response, cycles>>

checkVars == <<clock, web_site, self_after, kwargs, probe, times, ret>>
recordVars == <<site_obj, made, reloaded>>
handlerVars == <<environ, table, table0, urls, pc, i, response_limit,
                 changed_sites, log, response, cycles>>
publishVars == <<pub_arg, pub, sns_state>>

-----------------------------------------------------------------------------
(* Bounds *)

MaxHalfSecs == 12       \* longest probe duration, in half seconds
MaxDelay == 1           \* longest pause between two clock readings
MaxHandlerHalfSecs == 3 \* duration of a long probe in a handler cycle, in half seconds
MaxCycles == 2          \* invocations of lambda_handler
MaxBatch == 2           \* urls per batch
MaxKeys == 3            \* keys besides the url in a drawn constructor mapping
MaxSites == 2           \* length of a drawn changed_sites list

-----------------------------------------------------------------------------
(* Python values *)

None == <<"None">>
Idle == [kind |-> "idle"]       \* no call made yet
EmptyDict == <<>>
PyInt(n) == <<"int", n>>
PyStr(s) == <<"str", s>>
PyDec(n) == <<"dec", n>>        \* the Decimal a table read yields for a number
DateTime(t) == <<"datetime", t>>

\* a != that tells an int from a Decimal of the same value
PyNe_Strict(a, b) == a # b

\* the != of two values that are None, numbers or strings: an int and a
\* Decimal of the same value are equal
PyNe(a, b) ==
    IF a[1] \in {"int", "dec"} /\ b[1] \in {"int", "dec"}
    THEN a[2] # b[2]
    ELSE a # b

\* datetime.isoformat(): the ISO-8601 text of a datetime
isoformat(dt) == <<"iso", dt[2]>>

\* round() of a duration given in half seconds: to the nearest whole second,
\* a tie going to the even one
PyRound(h) ==
    LET q == h \div 2
    IN  IF h % 2 = 0 THEN q
        ELSE IF q % 2 = 0 THEN q ELSE q + 1

\* dict.get(k, default)
Get(d, k, default) == IF k \in DOMAIN d THEN d[k] ELSE default

Fields == {"url", "http_status", "http_reason", "last_checked", "last_changed",
           "elapsed_time", "is_changed", "is_up", "is_slow"}

Internal(f) == "_" \o f

\* site_obj.get(f, site_obj.get('_' + f, default))
Lookup(d, f, default) == Get(d, f, Get(d, Internal(f), default))

-----------------------------------------------------------------------------
(* URLs *)

Letters == {"h", "a"}

RECURSIVE Find(_, _, _)
\* least index >= k of a character of cs in s, or 0
Find(s, cs, k) ==
    IF k > Len(s) THEN 0
    ELSE IF s[k] \in cs THEN k ELSE Find(s, cs, k + 1)

\* urllib.parse.urlparse, as far as scheme and netloc go
urlparse(url) ==
    IF url = None THEN [scheme |-> <<>>, netloc |-> <<>>]
    ELSE
    LET c == Find(url, {":"}, 1)
        hasScheme == /\ c > 1
                     /\ \A j \in 1..(c - 1) : url[j] \in Letters
        rest == IF hasScheme THEN SubSeq(url, c + 1, Len(url)) ELSE url
        hasNetloc == Len(rest) >= 2 /\ rest[1] = "/" /\ rest[2] = "/"
        e == Find(rest, {"/"}, 3)
    IN  [scheme |-> IF hasScheme THEN SubSeq(url, 1, c - 1) ELSE <<>>,
         netloc |-> IF ~hasNetloc THEN <<>>
                    ELSE IF e = 0 THEN SubSeq(rest, 3, Len(rest))
                    ELSE SubSeq(rest, 3, e - 1)]

-----------------------------------------------------------------------------
(* class WebSite *)

\* a constructor that takes is_changed from the mapping like the other fields
WebSite_KeepChanged(d) ==
    LET url == Lookup(d, "url", None)
        result == urlparse(url)
    IN  IF result.scheme # <<>> /\ result.netloc # <<>>
        THEN [kind |-> "ok",
              obj |-> ("_url" :> url)
                   @@ ("_http_status" :> Lookup(d, "http_status", None))
                   @@ ("_http_reason" :> Lookup(d, "http_reason", None))
                   @@ ("_last_checked" :> Lookup(d, "last_checked", None))
                   @@ ("_last_changed" :> Lookup(d, "last_changed", None))
                   @@ ("_elapsed_time" :> Lookup(d, "elapsed_time", None))
                   @@ ("_is_changed" :> Lookup(d, "is_changed", FALSE))
                   @@ ("_is_up" :> Lookup(d, "is_up", FALSE))
                   @@ ("_is_slow" :> Lookup(d, "is_slow", FALSE))]
        ELSE [kind |-> "raise", exc |-> "ValueError"]

\* a constructor that accepts a url with a scheme or a network location
WebSite_SchemeOrNetloc(d) ==
    LET url == Lookup(d, "url", None)
        result == urlparse(url)
    IN  IF result.scheme # <<>> \/ result.netloc # <<>>
        THEN [kind |-> "ok",
              obj |-> ("_url" :> url)
                   @@ ("_http_status" :> Lookup(d, "http_status", None))
                   @@ ("_http_reason" :> Lookup(d, "http_reason", None))
                   @@ ("_last_checked" :> Lookup(d, "last_checked", None))
                   @@ ("_last_changed" :> Lookup(d, "last_changed", None))
                   @@ ("_elapsed_time" :> Lookup(d, "elapsed_time", None))
                   @@ ("_is_changed" :> FALSE)
                   @@ ("_is_up" :> Lookup(d, "is_up", FALSE))
                   @@ ("_is_slow" :> Lookup(d, "is_slow", FALSE))]
        ELSE [kind |-> "raise", exc |-> "ValueError"]

\* a constructor that starts every object as not up
WebSite_StartsDown(d) ==
    LET url == Lookup(d, "url", None)
        result == urlparse(url)
    IN  IF result.scheme # <<>> /\ result.netloc # <<>>
        THEN [kind |-> "ok",
              obj |-> ("_url" :> url)
                   @@ ("_http_status" :> Lookup(d, "http_status", None))
                   @@ ("_http_reason" :> Lookup(d, "http_reason", None))
                   @@ ("_last_checked" :> Lookup(d, "last_checked", None))
                   @@ ("_last_changed" :> Lookup(d, "last_changed", None))
                   @@ ("_elapsed_time" :> Lookup(d, "elapsed_time", None))
                   @@ ("_is_changed" :> FALSE)
                   @@ ("_is_up" :> FALSE)
                   @@ ("_is_slow" :> Lookup(d, "is_slow", FALSE))]
        ELSE [kind |-> "raise", exc |-> "ValueError"]

\* WebSite.__init__: the new object's __dict__, or the ValueError
WebSite(d) ==
    LET url == Lookup(d, "url", None)
        result == urlparse(url)
    IN  IF result.scheme # <<>> /\ result.netloc # <<>>
        THEN [kind |-> "ok",
              obj |-> ("_url" :> url)
                   @@ ("_http_status" :> Lookup(d, "http_status", None))
                   @@ ("_http_reason" :> Lookup(d, "http_reason", None))
                   @@ ("_last_checked" :> Lookup(d, "last_checked", None))
                   @@ ("_last_changed" :> Lookup(d, "last_changed", None))
                   @@ ("_elapsed_time" :> Lookup(d, "elapsed_time", None))
                   @@ ("_is_changed" :> FALSE)
                   @@ ("_is_up" :> Lookup(d, "is_up", FALSE))
                   @@ ("_is_slow" :> Lookup(d, "is_slow", FALSE))]
        ELSE [kind |-> "raise", exc |-> "ValueError"]

\* the last_checked and last_changed setters
set_last_checked(o, dt) ==
    [o EXCEPT !["_last_checked"] = IF dt # None THEN isoformat(dt) ELSE None]

set_last_changed(o, dt) ==
    [o EXCEPT !["_last_changed"] = IF dt # None THEN isoformat(dt) ELSE None]

\* the is_changed setter
set_is_changed(o, v) == [o EXCEPT !["_is_changed"] = v]

\* a to_dict with the two timestamps stored under each other's key
to_dict_Swapped(o) ==
       ("url" :> o["_url"])
    @@ ("http_status" :> o["_http_status"])
    @@ ("http_reason" :> o["_http_reason"])
    @@ ("is_changed" :> o["_is_changed"])
    @@ ("last_checked" :> o["_last_changed"])
    @@ ("last_changed" :> o["_last_checked"])
    @@ ("elapsed_time" :> o["_elapsed_time"])
    @@ ("is_up" :> o["_is_up"])
    @@ ("is_slow" :> o["_is_slow"])

\* WebSite.to_dict
to_dict(o) ==
       ("url" :> o["_url"])
    @@ ("http_status" :> o["_http_status"])
    @@ ("http_reason" :> o["_http_reason"])
    @@ ("is_changed" :> o["_is_changed"])
    @@ ("last_checked" :> o["_last_checked"])
    @@ ("last_changed" :> o["_last_changed"])
    @@ ("elapsed_time" :> o["_elapsed_time"])
    @@ ("is_up" :> o["_is_up"])
    @@ ("is_slow" :> o["_is_slow"])

\* str() of a URLError
StrURLError(reason) == "<urlopen error " \o reason \o ">"

\* What urllib.request.urlopen can do: return a response after h half
\* seconds, raise HTTPError, raise URLError, or raise an exception that is
\* neither (the connection is closed before a status line arrives).
Responses ==
    [kind : {"response"}, status : {200}, reason : {"OK"}, h : 0..MaxHalfSecs]
    \cup [kind : {"response"}, status : {204}, reason : {""}, h : 0..MaxHalfSecs]
HTTPErrors ==
    { [kind |-> "HTTPError", code |-> 503, reason |-> "Service Unavailable", h |-> 0],
      [kind |-> "HTTPError", code |-> 404, reason |-> "Not Found", h |-> 1] }
URLErrors ==
    { [kind |-> "URLError", reason |-> "refused", h |-> 0] }
OtherErrors ==
    { [kind |-> "other", exc |-> "RemoteDisconnected", h |-> 0] }
Probes == Responses \cup HTTPErrors \cup URLErrors \cup OtherErrors

\* a try statement that calls a response slow from the threshold on
TryProbe_SlowAtThreshold(current, p, slow_response_threshold) ==
    IF p.kind = "response" THEN
        LET elapsed == PyRound(p.h)
        IN  [current EXCEPT
                !["_http_status"] = PyInt(p.status),
                !["_http_reason"] = IF p.reason # "" THEN PyStr(p.reason) ELSE PyStr("OK"),
                !["_elapsed_time"] = PyInt(elapsed),
                !["_is_up"] = TRUE,
                !["_is_slow"] = elapsed >= slow_response_threshold]
    ELSE IF p.kind = "HTTPError" THEN
        [current EXCEPT
            !["_http_status"] = PyInt(p.code),
            !["_http_reason"] = PyStr(p.reason)]
    ELSE
        [current EXCEPT
            !["_http_status"] = PyStr("N/A"),
            !["_http_reason"] = PyStr(StrURLError(p.reason))]

\* a try statement whose error branches mark the site down and clear the
\* elapsed time
TryProbe_DownOnError(current, p, slow_response_threshold) ==
    IF p.kind = "response" THEN
        LET elapsed == PyRound(p.h)
        IN  [current EXCEPT
                !["_http_status"] = PyInt(p.status),
                !["_http_reason"] = IF p.reason # "" THEN PyStr(p.reason) ELSE PyStr("OK"),
                !["_elapsed_time"] = PyInt(elapsed),
                !["_is_up"] = TRUE,
                !["_is_slow"] = elapsed > slow_response_threshold]
    ELSE IF p.kind = "HTTPError" THEN
        [current EXCEPT
            !["_http_status"] = PyInt(p.code),
            !["_http_reason"] = PyStr(p.reason),
            !["_elapsed_time"] = None,
            !["_is_up"] = FALSE]
    ELSE
        [current EXCEPT
            !["_http_status"] = PyStr("N/A"),
            !["_http_reason"] = PyStr(StrURLError(p.reason)),
            !["_elapsed_time"] = None,
            !["_is_up"] = FALSE]

\* the try statement of check_website, applied to the working copy
TryProbe(current, p, slow_response_threshold) ==
    IF p.kind = "response" THEN
        LET elapsed == PyRound(p.h)
        IN  [current EXCEPT
                !["_http_status"] = PyInt(p.status),
                !["_http_reason"] = IF p.reason # "" THEN PyStr(p.reason) ELSE PyStr("OK"),
                !["_elapsed_time"] = PyInt(elapsed),
                !["_is_up"] = TRUE,
                !["_is_slow"] = elapsed > slow_response_threshold]
    ELSE IF p.kind = "HTTPError" THEN
        [current EXCEPT
            !["_http_status"] = PyInt(p.code),
            !["_http_reason"] = PyStr(p.reason)]
    ELSE
        [current EXCEPT
            !["_http_status"] = PyStr("N/A"),
            !["_http_reason"] = PyStr(StrURLError(p.reason))]

\* a change detection that looks at http_status alone
Detect_StatusOnly(self, current, tChanged) ==
    IF PyNe(current["_http_status"], self["_http_status"])
    THEN [set_last_changed(current, DateTime(tChanged)) EXCEPT !["_is_changed"] = TRUE]
    ELSE current

\* the change detection of check_website
Detect(self, current, tChanged) ==
    IF \/ PyNe(current["_http_status"], self["_http_status"])
       \/ current["_is_slow"] # self["_is_slow"]
    THEN set_is_changed(set_last_changed(current, DateTime(tChanged)), TRUE)
    ELSE current

\* a working copy that is the object itself
WorkingCopy_Alias(self) == [ref |-> "self", obj |-> self]

\* current = WebSite(self.__dict__): a new object, named by the reference
\* "current", that holds the attribute values of self
WorkingCopy(self) == [ref |-> "current", obj |-> WebSite(self).obj]

\* the working copy at the end of a check_website call that returns
Ran(self, kw, p, tChanged, tChecked) ==
    LET slow_response_threshold == Get(kw, "SlowResponseSeconds", 5)
        current == WorkingCopy(self).obj
    IN  set_last_checked(
            Detect(self, TryProbe(current, p, slow_response_threshold), tChanged),
            DateTime(tChecked))

\* the __dict__ of self after a check_website call: every assignment of the
\* call goes to the object the working copy refers to
SelfAfter(self, kw, p, tChanged, tChecked) ==
    IF WorkingCopy(self).ref = "self" /\ p.kind # "other"
    THEN Ran(self, kw, p, tChanged, tChecked)
    ELSE self

\* a check_website that stamps last_checked before it detects the change
check_website_CheckedFirst(self, kw, p, tChanged, tChecked) ==
    LET slow_response_threshold == Get(kw, "SlowResponseSeconds", 5)
        current == WebSite(self).obj
    IN  IF p.kind = "other"
        THEN [kind |-> "raise", exc |-> p.exc]
        ELSE [kind |-> "ok",
              dict |-> to_dict(Detect(self,
                          set_last_checked(
                              TryProbe(current, p, slow_response_threshold),
                              DateTime(tChanged)),
                          tChecked))]

\* a check_website that stamps last_checked only when it detects a change
check_website_CheckedOnChange(self, kw, p, tChanged, tChecked) ==
    LET slow_response_threshold == Get(kw, "SlowResponseSeconds", 5)
        current == WebSite(self).obj
        detected == Detect(self, TryProbe(current, p, slow_response_threshold), tChanged)
    IN  IF p.kind = "other"
        THEN [kind |-> "raise", exc |-> p.exc]
        ELSE [kind |-> "ok",
              dict |-> to_dict(IF detected["_is_changed"]
                               THEN set_last_checked(detected, DateTime(tChecked))
                               ELSE detected)]

\* WebSite.check_website on the object self, with the probe outcome p and
\* the clock readings of its two datetime.now(timezone.utc) calls
check_website(self, kw, p, tChanged, tChecked) ==
    IF p.kind = "other"
    THEN [kind |-> "raise", exc |-> p.exc]
    ELSE [kind |-> "ok", dict |-> to_dict(Ran(self, kw, p, tChanged, tChecked))]

-----------------------------------------------------------------------------
(* Stored items and keyword arguments the calls are drawn from *)

UrlA == <<"h", ":", "/", "/", "a">>
UrlB == <<"a", ":", "/", "/", "h", "/", "a">>

StatusValues == {None, PyDec(200), PyDec(503), PyStr("N/A")}

\* flat representations a table can hold for UrlA
StoredItems ==
    { ("url" :> UrlA) @@ ("http_status" :> st) @@ ("http_reason" :> None)
      @@ ("is_changed" :> ch) @@ ("last_checked" :> lc) @@ ("last_changed" :> lc)
      @@ ("elapsed_time" :> el) @@ ("is_up" :> up) @@ ("is_slow" :> sl) :
        st \in StatusValues, ch \in BOOLEAN, lc \in {None, isoformat(DateTime(0))},
        el \in {None, PyDec(1)}, up \in BOOLEAN, sl \in BOOLEAN }

KwargsValues == {EmptyDict, "SlowResponseSeconds" :> 1}

-----------------------------------------------------------------------------
(* Idle values of the variable groups *)

CheckIdle ==
    /\ web_site = Idle /\ self_after = Idle /\ kwargs = EmptyDict
    /\ probe = Idle /\ times = Idle /\ ret = Idle
RecordIdle == site_obj = EmptyDict /\ made = Idle /\ reloaded = Idle
PublishIdle == pub_arg = <<>> /\ pub = Idle /\ sns_state = "ok"
HandlerIdle ==
    /\ environ = EmptyDict /\ table = EmptyDict /\ table0 = EmptyDict
    /\ urls = <<>> /\ pc = "idle" /\ i = 0 /\ response_limit = None
    /\ changed_sites = <<>> /\ log = <<>> /\ response = Idle /\ cycles = 0

-----------------------------------------------------------------------------
(* check_website called on a record loaded from a stored item *)

InitCheck ==
    /\ clock = 1
    /\ web_site \in { WebSite(it).obj : it \in StoredItems }
    /\ self_after = Idle /\ kwargs = EmptyDict
    /\ probe = Idle /\ times = Idle /\ ret = Idle
    /\ RecordIdle /\ PublishIdle /\ HandlerIdle

CallCheckWebsite ==
    /\ ret = Idle
    /\ web_site # Idle
    /\ \E kw \in KwargsValues, p \in Probes, d1 \in 0..MaxDelay, d2 \in 0..MaxDelay :
        LET tEnd == clock + p.h
            tChanged == tEnd + d1
            tChecked == tChanged + d2
            r == check_website(web_site, kw, p, tChanged, tChecked)
        IN  /\ kwargs' = kw
            /\ probe' = p
            /\ times' = [start |-> clock, end |-> tEnd,
                         changed |-> tChanged, checked |-> tChecked]
            /\ ret' = r
            /\ self_after' = SelfAfter(web_site, kw, p, tChanged, tChecked)
            /\ clock' = IF r.kind = "ok" THEN tChecked ELSE tEnd
    /\ UNCHANGED <<web_site, recordVars, handlerVars, publishVars>>

NextCheck == CallCheckWebsite

SpecCheck == InitCheck /\ [][NextCheck]_vars

-----------------------------------------------------------------------------
(* Properties of check_website, under SpecCheck *)

Returned == ret # Idle /\ ret.kind = "ok"

\* does the returned record differ from the previous one in status or slowness
Differs ==
    \/ PyNe(ret.dict["http_status"], web_site["_http_status"])
    \/ ret.dict["is_slow"] # web_site["_is_slow"]

\* C1: a record returned by check_website has is_changed = true and
\* last_changed = the time of the detection exactly when its http_status or
\* its is_slow differs from the previous record's; otherwise is_changed is
\* false and last_changed is the previous record's.
C1_ChangeDetection ==
    Returned =>
        IF Differs
        THEN /\ ret.dict["is_changed"] = TRUE
             /\ ret.dict["last_changed"] = isoformat(DateTime(times.changed))
        ELSE /\ ret.dict["is_changed"] = FALSE
             /\ ret.dict["last_changed"] = web_site["_last_changed"]

\* a change of slowness alone, the status staying 200, is reported
C1_Witness ==
    /\ Returned
    /\ ~PyNe(ret.dict["http_status"], web_site["_http_status"])
    /\ ret.dict["is_slow"] # web_site["_is_slow"]
    /\ ret.dict["is_changed"] = TRUE
    /\ ret.dict["last_changed"] = isoformat(DateTime(times.changed))
    /\ web_site["_last_changed"] # ret.dict["last_changed"]

\* C3: after a probe that ends in a connection-level failure the returned
\* is_up is not true, whatever the previous record held.
C3_DownAfterConnectionFailure ==
    (Returned /\ probe.kind = "URLError") => ret.dict["is_up"] # TRUE

\* C4: check_website returns a flat record for every probe outcome, and
\* after a connection-level failure that record has http_status "N/A" and
\* http_reason the text of the error.
C4_NeverRaises ==
    probe # Idle =>
        /\ ret.kind = "ok"
        /\ DOMAIN ret.dict = Fields
        /\ probe.kind = "URLError" =>
                /\ ret.dict["http_status"] = PyStr("N/A")
                /\ ret.dict["http_reason"] = PyStr(StrURLError(probe.reason))

-----------------------------------------------------------------------------
(* Construction and serialisation of records, on drawn mappings *)

ValidUrls == {UrlA, UrlB}
InvalidUrls == { <<"a">>, <<"h", ":", "a">>, <<"/", "/", "a">>, <<"h", ":", "/", "/">> }

\* the values a mapping can carry for a field
FieldValues(f) ==
    CASE f = "http_status" -> {None, PyInt(200), PyStr("N/A")}
      [] f = "http_reason" -> {PyStr("OK")}
      [] f = "last_checked" -> {isoformat(DateTime(0))}
      [] f = "last_changed" -> {isoformat(DateTime(1))}
      [] f = "elapsed_time" -> {PyInt(2)}
      [] OTHER -> BOOLEAN

InitRecord ==
    /\ site_obj \in {EmptyDict}
                    \cup { "url" :> u : u \in ValidUrls \cup InvalidUrls \cup {None} }
                    \cup { "_url" :> u : u \in ValidUrls \cup InvalidUrls }
    /\ made = Idle /\ reloaded = Idle
    /\ clock = 0 /\ CheckIdle /\ PublishIdle /\ HandlerIdle

\* the caller puts one more entry into the mapping
AddKey ==
    /\ made = Idle
    /\ Cardinality(DOMAIN site_obj \ {"url", "_url"}) < MaxKeys
    /\ \E f \in Fields \ {"url"} : \E k \in {f, Internal(f)} : \E v \in FieldValues(f) :
        /\ k \notin DOMAIN site_obj
        /\ site_obj' = site_obj @@ (k :> v)
    /\ UNCHANGED <<made, reloaded, checkVars, handlerVars, publishVars>>

\* WebSite(site_obj)
Construct ==
    /\ made = Idle
    /\ made' = WebSite(site_obj)
    /\ UNCHANGED <<site_obj, reloaded, checkVars, handlerVars, publishVars>>

\* the record is marked changed the way check_website marks its working copy
MarkChanged ==
    /\ made # Idle /\ made.kind = "ok" /\ reloaded = Idle
    /\ \E t \in 0..1 :
        made' = [kind |-> "set",
                 obj |-> set_is_changed(set_last_changed(made.obj, DateTime(t)), TRUE)]
    /\ UNCHANGED <<site_obj, reloaded, checkVars, handlerVars, publishVars>>

\* WebSite(r.to_dict()), and the same again on the result
Reload ==
    /\ made # Idle /\ made.kind \in {"ok", "set"} /\ reloaded = Idle
    /\ LET first == WebSite(to_dict(made.obj))
       IN  reloaded' = [kind |-> "done", first |-> first,
                        second |-> IF first.kind = "ok"
                                   THEN WebSite(to_dict(first.obj)) ELSE Idle]
    /\ UNCHANGED <<site_obj, made, checkVars, handlerVars, publishVars>>

NextRecord == AddKey \/ Construct \/ MarkChanged \/ Reload

SpecRecord == InitRecord /\ [][NextRecord]_vars

\* C7: a WebSite just constructed from a mapping has is_changed = false,
\* whatever the mapping carried under is_changed or _is_changed.
C7_ConstructedUnchanged ==
    /\ (made # Idle /\ made.kind = "ok") => made.obj["_is_changed"] = FALSE
    /\ reloaded # Idle =>
          /\ reloaded.first.kind = "ok" => reloaded.first.obj["_is_changed"] = FALSE
          /\ reloaded.second.kind = "ok" => reloaded.second.obj["_is_changed"] = FALSE

\* constructed from a mapping that carries a true is_changed under either key
C7_Witness ==
    /\ made # Idle /\ made.kind = "ok"
    /\ Lookup(site_obj, "is_changed", FALSE) = TRUE
    /\ Get(site_obj, "_is_changed", FALSE) = TRUE
    /\ made.obj["_is_changed"] = FALSE

\* C8: reloading a record from its to_dict() reproduces every field but
\* is_changed, which is false, and reloading once more changes nothing.
C8_RoundTrip ==
    reloaded # Idle =>
        /\ reloaded.first.kind = "ok" /\ reloaded.second.kind = "ok"
        /\ \A f \in Fields \ {"is_changed"} :
              to_dict(reloaded.first.obj)[f] = to_dict(made.obj)[f]
        /\ to_dict(reloaded.first.obj)["is_changed"] = FALSE
        /\ to_dict(reloaded.second.obj) = to_dict(reloaded.first.obj)

\* a changed record with every field set is reloaded
C8_Witness ==
    /\ reloaded # Idle
    /\ made.obj["_is_changed"] = TRUE
    /\ made.obj["_is_up"] = TRUE
    /\ made.obj["_http_status"] = PyStr("N/A")
    /\ made.obj["_last_checked"] # None
    /\ made.obj["_last_checked"] # made.obj["_last_changed"]
    /\ to_dict(reloaded.first.obj)["is_changed"] = FALSE

-----------------------------------------------------------------------------
(* publish_changes *)

Digit(n) == CASE n = 0 -> "0" [] n = 1 -> "1" [] n = 2 -> "2" [] n = 3 -> "3"
              [] n = 4 -> "4" [] n = 5 -> "5" [] n = 6 -> "6" [] n = 7 -> "7"
              [] n = 8 -> "8" [] n = 9 -> "9"

RECURSIVE IntStr(_)
\* str() of a natural number
IntStr(n) == IF n < 10 THEN Digit(n) ELSE IntStr(n \div 10) \o Digit(n % 10)

RECURSIVE Join(_)
\* the string made of a sequence of characters
Join(cs) == IF cs = <<>> THEN "" ELSE cs[1] \o Join(Tail(cs))

\* how an f-string renders a value
Format(v) ==
    IF v = None THEN "None"
    ELSE IF v[1] \in {"int", "dec"} THEN IntStr(v[2])
    ELSE IF v[1] = "str" THEN v[2]
    ELSE Join(v)

\* the line of the digest for one site
SiteLine(site) ==
    Format(site["_url"]) \o ": status: " \o Format(site["_http_status"])
        \o " - " \o Format(site["_http_reason"]) \o "\n"

RECURSIVE SiteLines(_)
SiteLines(sites) ==
    IF sites = <<>> THEN <<>> ELSE <<SiteLine(Head(sites))>> \o SiteLines(Tail(sites))

Header == "The following websites are reporting a status change:\n\n"
Footer(status_url) == "\nYou can view the full website status here: " \o status_url

\* the arguments of the sns.publish call; Message is the text, kept as
\* the sequence of the pieces appended to it
Digest(sites, topic_arn, status_url) ==
    [TopicArn |-> topic_arn,
     Subject |-> "Notification of Website Status Change",
     Message |-> <<Header>> \o SiteLines(sites) \o <<Footer(status_url)>>]

\* a publish_changes without the test of the list's length
publish_changes_NoGuard(sites, env, sns) ==
    IF "SNS_TOPIC" \notin DOMAIN env \/ "STATUS_PAGE_URL" \notin DOMAIN env
    THEN [kind |-> "raise", exc |-> "KeyError", calls |-> <<>>, sent |-> <<>>]
    ELSE IF sns = "no_client"
    THEN [kind |-> "ok", calls |-> <<>>, sent |-> <<>>]
    ELSE LET m == Digest(sites, env["SNS_TOPIC"], env["STATUS_PAGE_URL"])
         IN  [kind |-> "ok", calls |-> <<m>>,
              sent |-> IF sns = "ok" THEN <<m>> ELSE <<>>]

\* publish_changes(changed_sites) in the environment env, the SNS
\* collaborator being available ("ok"), not constructible ("no_client") or
\* failing the call ("publish_fails"): how it ends, the sns.publish calls
\* it made and the messages that were delivered
publish_changes(sites, env, sns) ==
    IF "SNS_TOPIC" \notin DOMAIN env \/ "STATUS_PAGE_URL" \notin DOMAIN env
    THEN [kind |-> "raise", exc |-> "KeyError", calls |-> <<>>, sent |-> <<>>]
    ELSE IF Len(sites) > 0
    THEN IF sns = "no_client"
         THEN [kind |-> "ok", calls |-> <<>>, sent |-> <<>>]
         ELSE LET m == Digest(sites, env["SNS_TOPIC"], env["STATUS_PAGE_URL"])
              IN  [kind |-> "ok", calls |-> <<m>>,
                   sent |-> IF sns = "ok" THEN <<m>> ELSE <<>>]
    ELSE [kind |-> "ok", calls |-> <<>>, sent |-> <<>>]

SnsStates == {"ok", "no_client", "publish_fails"}

FullEnviron ==
       ("TABLE_NAME" :> "websites")
    @@ ("RESPONSE_LIMIT" :> <<"1">>)
    @@ ("SNS_TOPIC" :> "arn:aws:sns:eu:1:changes")
    @@ ("STATUS_PAGE_URL" :> "https://status")

\* os.environ without the variable k
Without(env, k) == [n \in DOMAIN env \ {k} |-> env[n]]

\* changed records a list can hold
ChangedSites ==
    { [WebSite(("url" :> u) @@ ("http_status" :> st) @@ ("http_reason" :> rs)).obj
          EXCEPT !["_is_changed"] = TRUE] :
      u \in ValidUrls,
      st \in {PyInt(200), PyStr("N/A")},
      rs \in {PyStr("OK")} }

RECURSIVE SeqsUpTo(_, _)
\* the sequences over S of length at most n
SeqsUpTo(S, n) ==
    IF n = 0 THEN {<<>>}
    ELSE LET shorter == SeqsUpTo(S, n - 1)
         IN  shorter \cup { Append(q, x) : q \in shorter, x \in S }

InitPublish ==
    /\ pub_arg \in SeqsUpTo(ChangedSites, MaxSites)
    /\ sns_state \in SnsStates
    /\ pub = Idle
    /\ environ \in {FullEnviron, Without(FullEnviron, "SNS_TOPIC"),
                     Without(FullEnviron, "STATUS_PAGE_URL")}
    /\ table = EmptyDict /\ table0 = EmptyDict
    /\ urls = <<>> /\ pc = "idle" /\ i = 0 /\ response_limit = None
    /\ changed_sites = <<>> /\ log = <<>> /\ response = Idle /\ cycles = 0
    /\ clock = 0 /\ CheckIdle /\ RecordIdle

CallPublishChanges ==
    /\ pub = Idle
    /\ pub' = publish_changes(pub_arg, environ, sns_state)
    /\ UNCHANGED <<pub_arg, sns_state, checkVars, recordVars, handlerVars>>

NextPublish == CallPublishChanges

SpecPublish == InitPublish /\ [][NextPublish]_vars

Configured == {"SNS_TOPIC", "STATUS_PAGE_URL"} \subseteq DOMAIN environ

\* C9: publish_changes sends nothing for an empty list and never more than
\* one message; for a non-empty list, the topic and the page link being
\* configured and SNS available, it sends exactly one message, whose lines
\* are the url and http_status of the sites of the list, in list order.
C9_OneDigest ==
    pub # Idle =>
        /\ Len(pub_arg) = 0 => (pub.calls = <<>> /\ pub.sent = <<>>)
        /\ Len(pub.calls) <= 1 /\ Len(pub.sent) <= 1
        /\ (Len(pub_arg) > 0 /\ Configured /\ sns_state = "ok") =>
              /\ Len(pub.sent) = 1
              /\ pub.sent[1].TopicArn = environ["SNS_TOPIC"]
              /\ Len(pub.sent[1].Message) = Len(pub_arg) + 2
              /\ \A k \in 1..Len(pub_arg) :
                    pub.sent[1].Message[k + 1] =
                        Format(pub_arg[k]["_url"]) \o ": status: "
                        \o Format(pub_arg[k]["_http_status"]) \o " - "
                        \o Format(pub_arg[k]["_http_reason"]) \o "\n"

\* one message for two different sites, in the order of the list
C9_Witness ==
    /\ pub # Idle
    /\ Len(pub_arg) = 2
    /\ pub_arg[1]["_url"] = UrlB /\ pub_arg[2]["_url"] = UrlA
    /\ pub_arg[1]["_http_status"] = PyStr("N/A")
    /\ Len(pub.sent) = 1
    /\ pub.sent[1].Message[2] = "a://h/a: status: N/A - OK\n"
    /\ pub.sent[1].Message[3] = "h://a: status: 200 - OK\n"

-----------------------------------------------------------------------------
(* lambda_handler *)

DigitChars == {"0", "1", "2", "3", "4", "5", "6", "7", "8", "9"}
DigitVal(c) == CHOOSE n \in 0..9 : Digit(n) = c

RECURSIVE DigitsVal(_, _)
DigitsVal(cs, acc) ==
    IF cs = <<>> THEN acc ELSE DigitsVal(Tail(cs), 10 * acc + DigitVal(Head(cs)))

\* int() of a string of characters: the number, or the ValueError
int(cs) ==
    IF cs # <<>> /\ \A k \in 1..Len(cs) : cs[k] \in DigitChars
    THEN [kind |-> "ok", val |-> DigitsVal(cs, 0)]
    ELSE [kind |-> "raise", exc |-> "ValueError"]

\* what the table returns for an item that was put: numbers come back as Decimal
Stored(item) ==
    [k \in DOMAIN item |->
        IF k \in {"http_status", "elapsed_time"} /\ item[k][1] = "int"
        THEN PyDec(item[k][2]) ELSE item[k]]

Faults == {"none", "get_item", "put_item"}

UrlBad == <<"h", ":", "a">>

\* the probe outcomes drawn in a handler cycle: a 200 that is immediate or
\* long, a 503, a refused connection, a connection closed without a reply
HandlerProbes ==
    { p \in Probes : /\ p.h \in {0, MaxHandlerHalfSecs}
                     /\ p.kind = "response" => p.status = 200 }

\* the outcome of one iteration when it ends in the except clause
Failed(exc, prev, r, tbl, cs) ==
    [exc |-> exc, prev |-> prev, ret |-> r, table |-> tbl, changed_sites |-> cs]

\* an iteration whose put_item sits under the is_changed test
Iteration_PutUnderIf(url, tbl, limit, cs, fault, p, tChanged, tChecked) ==
    IF fault = "get_item" THEN Failed("ClientError", Idle, Idle, tbl, cs)
    ELSE IF url \notin DOMAIN tbl THEN Failed("KeyError", Idle, Idle, tbl, cs)
    ELSE
    LET item == tbl[url]
        site == WebSite(item)
        n == int(limit)
    IN  IF site.kind = "raise" THEN Failed(site.exc, item, Idle, tbl, cs)
        ELSE IF n.kind = "raise" THEN Failed(n.exc, item, Idle, tbl, cs)
        ELSE
        LET r == check_website(site.obj, "SlowResponseSeconds" :> n.val,
                               p, tChanged, tChecked)
        IN  IF r.kind = "raise" THEN Failed(r.exc, item, r, tbl, cs)
            ELSE
            LET updated_site == WebSite(r.dict).obj
                cs2 == IF updated_site["_is_changed"]
                       THEN Append(cs, updated_site) ELSE cs
            IN  IF fault = "put_item" THEN Failed("ClientError", item, r, tbl, cs2)
                ELSE [exc |-> "none", prev |-> item, ret |-> r,
                      table |-> IF updated_site["_is_changed"]
                                THEN (r.dict["url"] :> Stored(r.dict)) @@ tbl
                                ELSE tbl,
                      changed_sites |-> cs2]

\* one iteration of the loop of lambda_handler, for url: the try body and
\* its except clause.  fault says which table call fails, p is what urlopen
\* does.  Yields the exception caught ("none" when none), the item read, the
\* outcome of check_website, and the table and changed_sites afterwards.
Iteration(url, tbl, limit, cs, fault, p, tChanged, tChecked) ==
    IF fault = "get_item" THEN Failed("ClientError", Idle, Idle, tbl, cs)
    ELSE IF url \notin DOMAIN tbl THEN Failed("KeyError", Idle, Idle, tbl, cs)
    ELSE
    LET item == tbl[url]
        site == WebSite(item)
        n == int(limit)
    IN  IF site.kind = "raise" THEN Failed(site.exc, item, Idle, tbl, cs)
        ELSE IF n.kind = "raise" THEN Failed(n.exc, item, Idle, tbl, cs)
        ELSE
        LET r == check_website(site.obj, "SlowResponseSeconds" :> n.val,
                               p, tChanged, tChecked)
        IN  IF r.kind = "raise" THEN Failed(r.exc, item, r, tbl, cs)
            ELSE
            LET updated_site == WebSite(r.dict).obj
                cs2 == IF updated_site["_is_changed"]
                       THEN Append(cs, updated_site) ELSE cs
            IN  IF fault = "put_item" THEN Failed("ClientError", item, r, tbl, cs2)
                ELSE [exc |-> "none", prev |-> item, ret |-> r,
                      table |-> (r.dict["url"] :> Stored(r.dict)) @@ tbl,
                      changed_sites |-> cs2]

Environs ==
    { FullEnviron,
      Without(FullEnviron, "TABLE_NAME"),
      Without(FullEnviron, "RESPONSE_LIMIT"),
      Without(FullEnviron, "SNS_TOPIC"),
      [FullEnviron EXCEPT !["RESPONSE_LIMIT"] = <<"x">>] }

\* the table holds an item for UrlA and one for UrlBad, none for UrlB
InitialTable == (UrlA :> ("url" :> UrlA)) @@ (UrlBad :> ("url" :> UrlBad))

\* a batch names each url once
Batches ==
    { q \in SeqsUpTo({UrlA, UrlB, UrlBad}, MaxBatch) \ {<<>>} :
        \A a, b \in 1..Len(q) : a # b => q[a] # q[b] }

Init ==
    /\ environ \in Environs
    /\ table = InitialTable /\ table0 = InitialTable
    /\ urls = <<>> /\ pc = "idle" /\ i = 0 /\ response_limit = None
    /\ changed_sites = <<>> /\ log = <<>> /\ response = Idle /\ cycles = 0
    /\ clock = 1 /\ CheckIdle /\ RecordIdle /\ PublishIdle

\* an event arrives: the batch is read and the table is opened
Invoke ==
    /\ pc \in {"idle", "done"}
    /\ cycles < MaxCycles
    /\ cycles' = cycles + 1
    /\ clock' = clock + 1
    /\ \E batch \in Batches : urls' = batch
    /\ table0' = table
    /\ i' = 0 /\ log' = <<>> /\ changed_sites' = <<>> /\ response_limit' = None
    /\ pub' = Idle /\ pub_arg' = <<>>
    /\ IF "TABLE_NAME" \in DOMAIN environ
       THEN pc' = "config" /\ response' = Idle
       ELSE pc' = "done" /\ response' = [kind |-> "raise", exc |-> "KeyError"]
    /\ UNCHANGED <<web_site, self_after, kwargs, probe, times, ret, recordVars,
                   environ, table, sns_state>>

\* response_limit = os.environ['RESPONSE_LIMIT']
ReadLimit ==
    /\ pc = "config"
    /\ IF "RESPONSE_LIMIT" \in DOMAIN environ
       THEN /\ response_limit' = environ["RESPONSE_LIMIT"]
            /\ pc' = "loop"
            /\ UNCHANGED response
       ELSE /\ response' = [kind |-> "return", statusCode |-> 500,
                            body |-> "Error scanning DynamoDB"]
            /\ pc' = "done"
            /\ UNCHANGED response_limit
    /\ UNCHANGED <<checkVars, recordVars, publishVars, environ, table, table0,
                   urls, i, changed_sites, log, cycles>>

\* the body of the for loop, for the next url of the batch
ProcessUrl ==
    /\ pc = "loop"
    /\ i < Len(urls)
    /\ \E fault \in Faults, p \in HandlerProbes :
        LET url == urls[i + 1]
            tEnd == clock + p.h
            tChanged == tEnd
            tChecked == tEnd
            it == Iteration(url, table, response_limit, changed_sites,
                            fault, p, tChanged, tChecked)
            probed == it.ret # Idle
        IN  /\ table' = it.table
            /\ changed_sites' = it.changed_sites
            /\ log' = Append(log,
                    [url |-> url,
                     had_item |-> url \in DOMAIN table,
                     fault |-> IF it.exc = "ClientError" THEN fault ELSE "none",
                     exc |-> it.exc,
                     prev |-> it.prev,
                     probe |-> IF probed THEN p ELSE Idle,
                     ret |-> it.ret,
                     changed |-> IF probed THEN tChanged ELSE 0,
                     checked |-> IF probed THEN tChecked ELSE 0])
            /\ clock' = IF ~probed THEN clock
                        ELSE IF it.ret.kind = "ok" THEN tChecked ELSE tEnd
    /\ i' = i + 1
    /\ UNCHANGED <<web_site, self_after, kwargs, probe, times, ret, recordVars,
                   publishVars, environ, table0, urls, pc, response_limit,
                   response, cycles>>

\* after the loop: publish_changes(changed_sites), then the return
Finish ==
    /\ pc = "loop"
    /\ i = Len(urls)
    /\ \E s \in IF Len(changed_sites) > 0 THEN SnsStates ELSE {sns_state} :
        /\ sns_state' = s
        /\ pub_arg' = changed_sites
        /\ pub' = publish_changes(changed_sites, environ, s)
    /\ response' = IF pub'.kind = "raise"
                   THEN [kind |-> "return", statusCode |-> 500,
                         body |-> "Error scanning DynamoDB"]
                   ELSE [kind |-> "return", statusCode |-> 200,
                         body |-> "Website processed"]
    /\ pc' = "done"
    /\ UNCHANGED <<checkVars, recordVars, environ, table, table0, urls, i,
                   response_limit, changed_sites, log, cycles>>

Next == Invoke \/ ReadLimit \/ ProcessUrl \/ Finish

Spec == Init /\ [][Next]_vars

-----------------------------------------------------------------------------
(* Properties of lambda_handler, under Spec *)

ValidUrl(u) == urlparse(u).scheme # <<>> /\ urlparse(u).netloc # <<>>

\* the k-th iteration of the cycle ran check_website and it returned
Checked(k) == log[k].ret # Idle /\ log[k].ret.kind = "ok"

\* no later iteration of the cycle wrote the item of the same url
LastWrite(k) ==
    \A j \in (k + 1)..Len(log) : ~(log[j].url = log[k].url /\ log[j].exc = "none")

\* the record returned in the k-th iteration is the one the table holds
Persisted(k) ==
    /\ log[k].url \in DOMAIN table
    /\ table[log[k].url] = Stored(log[k].ret.dict)

\* nothing failed in the processing of the k-th url itself: the table calls
\* worked and found an item, the url and the threshold are well formed and
\* the probe did not raise
NoOwnFailure(k) ==
    /\ log[k].fault = "none"
    /\ log[k].had_item
    /\ ValidUrl(log[k].url)
    /\ int(response_limit).kind = "ok"
    /\ log[k].probe # Idle => log[k].probe.kind # "other"

\* C2: every url whose check_website result has is_changed = true has its
\* record persisted and is in the list passed to publish_changes.
C2_ChangedForwarded ==
    (pc = "done" /\ pub # Idle /\ pub.kind = "ok") =>
        \A k \in 1..Len(log) :
            (log[k].exc = "none" /\ log[k].ret.dict["is_changed"] = TRUE) =>
                /\ LastWrite(k) => Persisted(k)
                /\ \E j \in 1..Len(pub_arg) : pub_arg[j]["_url"] = log[k].url

\* C5: a url whose own processing does not fail is probed and its record
\* persisted whatever happened to the other urls of the batch, and once the
\* loop has been entered the handler loops over the whole batch, calls
\* publish_changes and returns.
C5_BatchIsolation ==
    /\ \A k \in 1..Len(log) :
          NoOwnFailure(k) =>
              /\ Checked(k)
              /\ log[k].exc = "none"
              /\ LastWrite(k) => Persisted(k)
    /\ (pc = "done" /\ response_limit # None) =>
          /\ Len(log) = Len(urls)
          /\ pub # Idle
          /\ response.kind = "return"

\* the first url of the batch is invalid, the second is checked and stored
C5_Witness ==
    /\ pc = "done"
    /\ Len(log) = 2
    /\ log[1].exc = "ValueError"
    /\ NoOwnFailure(2) /\ Checked(2) /\ Persisted(2)
    /\ table[log[2].url] # table0[log[2].url]
    /\ response.kind = "return"

\* C6: a url of the batch without an item in the table is given a record
\* built from defaults, is probed, and the record is persisted.
C6_NewUrlChecked ==
    \A k \in 1..Len(log) :
        (/\ ~log[k].had_item
         /\ log[k].fault = "none"
         /\ ValidUrl(log[k].url)
         /\ int(response_limit).kind = "ok") =>
            /\ log[k].probe # Idle
            /\ Checked(k) => log[k].url \in DOMAIN table

\* publish_changes was called and could not send
CannotSend == pub # Idle /\ (~Configured \/ sns_state # "ok")

\* C10: when publish_changes cannot send, it raises nothing, the records
\* persisted in the cycle stay persisted and lambda_handler returns 200.
C10_NotifyFailureSwallowed ==
    (pc = "done" /\ CannotSend) =>
        /\ pub.kind = "ok"
        /\ response.kind = "return" /\ response.statusCode = 200
        /\ \A k \in 1..Len(log) :
              (log[k].exc = "none" /\ LastWrite(k)) => Persisted(k)

-----------------------------------------------------------------------------
(* Validation of the url, under SpecRecord *)

\* the url a mapping carries: under 'url', else under '_url', else none
CarriedUrl == Lookup(site_obj, "url", None)

\* C11: construction succeeds when the url of the mapping has a scheme and
\* a network location, and raises ValueError, yielding no object, when the
\* url is missing or lacks one of the two.
C11_UrlValidation ==
    made # Idle =>
        /\ CarriedUrl \in ValidUrls =>
              (made.kind \in {"ok", "set"} /\ made.obj["_url"] = CarriedUrl)
        /\ CarriedUrl \in InvalidUrls \cup {None} =>
              (made.kind = "raise" /\ made.exc = "ValueError"
               /\ "obj" \notin DOMAIN made)

\* a url with a scheme and an empty network location is refused
C11_Witness ==
    /\ made # Idle
    /\ CarriedUrl = <<"h", ":", "/", "/">>
    /\ made.kind = "raise"

-----------------------------------------------------------------------------
(* The default threshold, under Spec *)

\* C12: a cycle run without a configured threshold still checks every url
\* of the batch, classifying slowness against 5.
C12_DefaultThreshold ==
    (/\ pc = "done"
     /\ "TABLE_NAME" \in DOMAIN environ
     /\ "RESPONSE_LIMIT" \notin DOMAIN environ) =>
        /\ Len(log) = Len(urls)
        /\ \A k \in 1..Len(log) :
              (Checked(k) /\ log[k].probe.kind = "response") =>
                  log[k].ret.dict["is_slow"] = (PyRound(log[k].probe.h) > 5)

-----------------------------------------------------------------------------
(* The paths of check_website, under SpecCheck *)

\* the threshold the call was given, 5 when it was given none
Threshold == Get(kwargs, "SlowResponseSeconds", 5)

\* C13: after a response the returned record has is_up = true, the status
\* code of the response, as elapsed_time the whole number of seconds nearest
\* to the probe's duration, and is_slow exactly when elapsed_time is greater
\* than the threshold, whatever the previous is_up and is_slow.
C13_SuccessPath ==
    (Returned /\ probe.kind = "response") =>
        /\ ret.dict["is_up"] = TRUE
        /\ ret.dict["http_status"] = PyInt(probe.status)
        /\ ret.dict["elapsed_time"][1] = "int"
        /\ 2 * ret.dict["elapsed_time"][2] - probe.h \in -1..1
        /\ ret.dict["is_slow"] = (ret.dict["elapsed_time"][2] > Threshold)

\* a response that takes exactly the default threshold is not slow, though
\* the previous record was slow and down
C13_Witness ==
    /\ Returned /\ probe.kind = "response"
    /\ kwargs = EmptyDict
    /\ ret.dict["elapsed_time"] = PyInt(5)
    /\ web_site["_is_slow"] = TRUE /\ web_site["_is_up"] = FALSE
    /\ ret.dict["is_slow"] = FALSE /\ ret.dict["is_up"] = TRUE

C15_TimestampOrder ==
    Returned =>
        /\ ret.dict["last_checked"][1] = "iso"
        /\ ret.dict["last_checked"][2] >= times.end
        /\ ret.dict["is_changed"] = TRUE =>
              /\ ret.dict["last_changed"][1] = "iso"
              /\ ret.dict["last_changed"][2] >= times.end
              /\ ret.dict["last_changed"][2] <= ret.dict["last_checked"][2]

\* the probe takes time, and time passes before each of the two readings
C15_Witness ==
    /\ Returned
    /\ ret.dict["is_changed"] = TRUE
    /\ times.start < times.end
    /\ times.end < ret.dict["last_changed"][2]
    /\ ret.dict["last_changed"][2] < ret.dict["last_checked"][2]

-----------------------------------------------------------------------------
(* Successive cycles, under Spec *)

\* the item read in the k-th iteration carries a last_checked timestamp
WasChecked(k) == Get(log[k].prev, "last_checked", None) # None

\* C16: every check_website call that returns, on the response, the
\* protocol-error and the connection-error path, changed or not, stamps
\* last_checked with the time of the call, and the last_checked stored for a
\* url never moves backwards from one cycle to the next.
C16_LastCheckedAdvances ==
    /\ \A k \in 1..Len(log) :
          Checked(k) =>
              /\ log[k].ret.dict["last_checked"] = isoformat(DateTime(log[k].checked))
              /\ WasChecked(k) =>
                    log[k].prev["last_checked"][2] <= log[k].ret.dict["last_checked"][2]
    /\ \A u \in DOMAIN table0 :
          Get(table0[u], "last_checked", None) # None =>
              /\ u \in DOMAIN table
              /\ table[u]["last_checked"][2] >= table0[u]["last_checked"][2]

\* in a later cycle a 503 that is no change is stored with a later last_checked
C16_Witness ==
    /\ Len(log) >= 1
    /\ Checked(1) /\ log[1].exc = "none"
    /\ log[1].probe.kind = "HTTPError"
    /\ log[1].ret.dict["is_changed"] = FALSE
    /\ WasChecked(1)
    /\ log[1].prev["last_checked"][2] < log[1].ret.dict["last_checked"][2]
    /\ table[log[1].url]["last_checked"] = log[1].ret.dict["last_checked"]

-----------------------------------------------------------------------------
(* The working copy, under SpecCheck *)

\* C17: a check_website call leaves every attribute of the record it is
\* called on as it was, on every path, and the record it returns has the url
\* of that record.
C17_WorkingCopy ==
    probe # Idle =>
        /\ self_after = web_site
        /\ Returned => ret.dict["url"] = web_site["_url"]

\* the returned record differs from the previous one, which is untouched
C17_Witness ==
    /\ Returned
    /\ self_after = web_site
    /\ ret.dict["http_status"] # web_site["_http_status"]
    /\ ret.dict["is_up"] # web_site["_is_up"]
    /\ ret.dict["last_checked"] # web_site["_last_checked"]
    /\ ret.dict["is_changed"] = TRUE /\ web_site["_is_changed"] = FALSE
    /\ ret.dict["url"] = UrlA

-----------------------------------------------------------------------------
(* One change event per transition, under Spec *)

\* the same number, or the same value of another kind
SameValue(a, b) ==
    IF a[1] \in {"int", "dec"} /\ b[1] \in {"int", "dec"} THEN a[2] = b[2] ELSE a = b

\* the k-th probe found what the probe before it, whose record it read from
\* the table, had found
Steady(k) ==
    /\ Checked(k) /\ WasChecked(k)
    /\ SameValue(log[k].ret.dict["http_status"], log[k].prev["http_status"])
    /\ log[k].ret.dict["is_slow"] = log[k].prev["is_slow"]

\* C18: when a probe of a url yields the http_status and the slowness of the
\* previous probe of that url, whose record was stored and read back, it
\* returns is_changed = false and the last_changed of that previous record.
C18_OneEventPerTransition ==
    \A k \in 1..Len(log) :
        Steady(k) =>
            /\ log[k].ret.dict["is_changed"] = FALSE
            /\ log[k].ret.dict["last_changed"] = log[k].prev["last_changed"]

\* a 200 after a stored 200 that was a change: no second event
C18_Witness ==
    /\ Len(log) >= 1
    /\ Steady(1)
    /\ log[1].probe.kind = "response"
    /\ log[1].prev["is_changed"] = TRUE
    /\ log[1].prev["http_status"] = PyDec(200)
    /\ log[1].ret.dict["http_status"] = PyInt(200)
    /\ log[1].ret.dict["is_changed"] = FALSE
    /\ log[1].ret.dict["last_changed"] # None
    /\ log[1].ret.dict["last_checked"] # log[1].prev["last_checked"]

-----------------------------------------------------------------------------
(* is_up over the cycles, under Spec *)

\* the record read at the start of the k-th iteration says the site is up
WasUp(k) == Get(log[k].prev, "is_up", FALSE) = TRUE

====
